---- MODULE Spec2Model ----
(***************************************************************************)
(* A model of dmarc_analysis_tool.py: the extraction of records from DMARC *)
(* aggregate reports (parse_dmarc_report), their aggregation and the       *)
(* policy recommendation (analyze_data), the counts the charts are drawn   *)
(* from (generate_visualizations) and the driver (main).                   *)
(*                                                                         *)
(* An XML document is modelled by what the extractor reads of it: whether  *)
(* it is well-formed, and the sequence of its <record> elements in         *)
(* document order (what root.findall('.//record') returns).  A <record>    *)
(* element is the set of child paths it has, and the text of each.  The    *)
(* text of <count> is a sequence of characters, so that int() is computed  *)
(* and not assumed.  Python's None is the string NoneText.                 *)
(***************************************************************************)
EXTENDS Integers, Sequences, FiniteSets

VARIABLES files, pc, i, all_reports, errors, analysis, vis, calls

vars == <<files, pc, i, all_reports, errors, analysis, vis, calls>>

\* ------------------------------------------------------------- bounds

\* The most files of a batch (select_reports allows up to 100).
MaxFiles == 3

\* The most <record> elements of a document, where one document is parsed.
MaxElems == 2

\* The most records of a list handed to analyze_data directly.
MaxRecords == 2

\* ------------------------------------------------- parse_dmarc_report

NoneText == "None"

RequiredPaths == {"source_ip", "spf", "dkim", "disposition", "count"}

AllPaths == RequiredPaths \cup {"header_from"}

\* record.find(path): None when the element has no such child.
find(record, path) == path \in record.has

IsDigit(c) == c \in {"0", "1", "2", "3", "4", "5", "6", "7", "8", "9"}

DigitValue(c) ==
  CASE c = "0" -> 0 [] c = "1" -> 1 [] c = "2" -> 2 [] c = "3" -> 3
    [] c = "4" -> 4 [] c = "5" -> 5 [] c = "6" -> 6 [] c = "7" -> 7
    [] c = "8" -> 8 [] c = "9" -> 9

HasSign(text) == text # <<>> /\ Head(text) \in {"-", "+"}

Unsigned(text) == IF HasSign(text) THEN Tail(text) ELSE text

\* Whether int(text) returns: an optional sign and at least one digit.  The
\* empty sequence is the text of an empty <count/> (None, a TypeError) as
\* well as of the empty string (a ValueError).
IsIntText(text) ==
  /\ Unsigned(text) # <<>>
  /\ \A k \in 1..Len(Unsigned(text)) : IsDigit(Unsigned(text)[k])

RECURSIVE DigitsValue(_)
DigitsValue(digits) ==
  IF digits = <<>> THEN 0
  ELSE 10 * DigitsValue(SubSeq(digits, 1, Len(digits) - 1))
       + DigitValue(digits[Len(digits)])

\* int(text), for a text int() accepts.
IntOf(text) ==
  IF HasSign(text) /\ Head(text) = "-" THEN 0 - DigitsValue(Unsigned(text))
  ELSE DigitsValue(Unsigned(text))

\* Whether the body of the loop raises on this <record>: .text of a find()
\* that returned None, or int() of a text that is no integer.
Raises(record) ==
  \/ ~find(record, "source_ip")
  \/ ~find(record, "spf")
  \/ ~find(record, "dkim")
  \/ ~find(record, "disposition")
  \/ ~find(record, "count")
  \/ ~IsIntText(record.count)

DomainOfNoneAsNone(record) ==
  IF find(record, "header_from") THEN record.header_from ELSE NoneText

\* The Domain of a record: header_from's text, "Unknown" without the element.
DomainOf(record) ==
  IF find(record, "header_from") THEN record.header_from ELSE "Unknown"

\* The dictionary appended to results for one <record>.
NormalizedRecord(record) ==
  [Source_IP |-> record.source_ip,
   SPF_Pass  |-> record.spf,
   DKIM_Pass |-> record.dkim,
   Alignment |-> record.disposition,
   Count     |-> IntOf(record.count),
   Domain    |-> DomainOf(record)]

\* The for loop over root.findall('.//record'): results so far, and whether
\* an exception left the loop.
RECURSIVE ExtractFrom(_, _)
ExtractFrom(records, results) ==
  IF records = <<>> THEN [raised |-> FALSE, results |-> results]
  ELSE IF Raises(Head(records)) THEN [raised |-> TRUE, results |-> results]
  ELSE ExtractFrom(Tail(records), Append(results, NormalizedRecord(Head(records))))

parse_keeping_partial(doc) ==
  IF ~doc.wellformed THEN [records |-> <<>>, error |-> TRUE]
  ELSE LET out == ExtractFrom(doc.records, <<>>)
       IN  [records |-> out.results, error |-> out.raised]

\* parse_dmarc_report(file_path): the records returned, and whether the
\* handler printed "Error parsing DMARC report".
parse_dmarc_report(doc) ==
  IF ~doc.wellformed THEN [records |-> <<>>, error |-> TRUE]
  ELSE LET out == ExtractFrom(doc.records, <<>>)
       IN  IF out.raised THEN [records |-> <<>>, error |-> TRUE]
           ELSE [records |-> out.results, error |-> FALSE]

\* ------------------------------------------------------- analyze_data

\* sum(r['Count'] for r in reports), added in the order of the list.
RECURSIVE SumCount(_)
SumCount(reports) ==
  IF reports = <<>> THEN 0
  ELSE SumCount(SubSeq(reports, 1, Len(reports) - 1)) + reports[Len(reports)].Count

is_spf_or_dkim_pass(r) == r.SPF_Pass = "pass" \/ r.DKIM_Pass = "pass"

\* The condition of the spf_dkim_pass list.
is_spf_dkim_pass(r) == r.SPF_Pass = "pass" /\ r.DKIM_Pass = "pass"

\* The condition of the unauthorized_sources list.
is_unauthorized(r) == r.Alignment # "pass"

spf_dkim_pass(reports) == SelectSeq(reports, is_spf_dkim_pass)

unauthorized_sources(reports) == SelectSeq(reports, is_unauthorized)

is_empty_list(reports, total_emails) == reports = <<>>

\* The guard of the early return: if total_emails == 0.
is_no_data(reports, total_emails) == total_emails = 0

\* A rate is the exact quotient num / den, den # 0, of the float the code
\* computes: pass_rate = (passed_count / total_emails) * 100.
pass_rate(passed_count, total_emails) ==
  [num |-> passed_count * 100, den |-> total_emails]

\* fail_rate = 100 - pass_rate.
fail_rate(rate) == [num |-> 100 * rate.den - rate.num, den |-> rate.den]

\* rate < k, for an integer k.
RateLess(rate, k) ==
  IF rate.den > 0 THEN rate.num < k * rate.den ELSE rate.num > k * rate.den

Reject == "Recommend 'reject' policy."

Quarantine == "Recommend 'quarantine' policy."

StayAtNone == "Stay at 'none' policy and investigate further."

RateAtMost(rate, k) ==
  IF rate.den > 0 THEN rate.num <= k * rate.den ELSE rate.num >= k * rate.den

recommendation_at_most(rate, unauthorized_count) ==
  IF RateAtMost(rate, 5) /\ unauthorized_count < 2 THEN Reject
  ELSE IF RateAtMost(rate, 15) THEN Quarantine
  ELSE StayAtNone

\* The if / elif / else chain that sets recommendation.
recommendation(rate, unauthorized_count) ==
  IF RateLess(rate, 5) /\ unauthorized_count < 2 THEN Reject
  ELSE IF RateLess(rate, 15) THEN Quarantine
  ELSE StayAtNone

first_domain_with_failures(sources) ==
  IF sources = <<>> THEN {} ELSE {sources[1].Domain}

\* set(r['Domain'] for r in unauthorized_sources); the order of the list made
\* of it is that of the set's iteration, and is not modelled.
domains_with_failures(sources) == {sources[k].Domain : k \in 1..Len(sources)}

NoData == [kind |-> "str", text |-> "No data available for analysis."]

\* analyze_data(reports): the string, or the detailed_analysis dictionary
\* (with failed_count, a local the dictionary does not hold).
analyze_data(reports) ==
  LET total_emails == SumCount(reports)
  IN  IF is_no_data(reports, total_emails) THEN NoData
      ELSE LET passed_count == SumCount(spf_dkim_pass(reports))
               failed_count == total_emails - passed_count
               unauthorized_count == SumCount(unauthorized_sources(reports))
               rate == fail_rate(pass_rate(passed_count, total_emails))
           IN  [kind |-> "dict",
                Total_Emails |-> total_emails,
                SPF_DKIM_Pass_Count |-> passed_count,
                failed_count |-> failed_count,
                Unauthorized_Email_Count |-> unauthorized_count,
                Fail_Rate |-> rate,
                Domains_with_Failures |->
                  domains_with_failures(unauthorized_sources(reports)),
                Recommendation |-> recommendation(rate, unauthorized_count)]

\* -------------------------------------------- generate_visualizations

max(a, b) == IF b > a THEN b ELSE a

\* The records of one domain: r for r in reports if r['Domain'] == domain.
of_domain(reports, domain) ==
  LET same(r) == r.Domain = domain IN SelectSeq(reports, same)

\* The bar chart's heights: for each domain of an unauthorized record, the
\* sum of Count over the records of that domain.
domain_counts(reports) ==
  [domain \in domains_with_failures(unauthorized_sources(reports)) |->
     SumCount(of_domain(reports, domain))]

\* generate_visualizations(reports): the three values of the pie chart and,
\* past the early return on an all-zero pie, the heights of the bar chart.
generate_visualizations(reports) ==
  LET pass_total == SumCount(spf_dkim_pass(reports))
      total_count == SumCount(reports)
      unauthorized_count == SumCount(unauthorized_sources(reports))
      failures == max(0, total_count - pass_total - unauthorized_count)
      values == <<max(0, pass_total), max(0, failures), max(0, unauthorized_count)>>
  IN  IF values[1] + values[2] + values[3] = 0
      THEN [kind |-> "nodata", values |-> values, domain_counts |-> <<>>]
      ELSE [kind |-> "charts", values |-> values,
            domain_counts |-> domain_counts(reports)]

\* --------------------------------------------------------------- main

assign_reports(reports, parsed) == parsed

\* all_reports.extend(reports).
extend(reports, parsed) == reports \o parsed

\* Whether printing the summary raises: analysis.items() of the string (an
\* AttributeError), or ', '.join(value) of a list that holds None (a
\* TypeError).  Nothing in main handles either.
summary_raises(result) ==
  \/ result.kind = "str"
  \/ result.kind = "dict" /\ NoneText \in result.Domains_with_Failures

\* if not report_files: return; otherwise all_reports = [] and the loop starts.
Start ==
  /\ pc = "start"
  /\ pc' = IF files = <<>> THEN "done" ELSE "parse"
  /\ i' = 1
  /\ UNCHANGED <<files, all_reports, errors, analysis, vis, calls>>

\* One iteration of the loop over report_files.
ParseFile ==
  /\ pc = "parse"
  /\ i <= Len(files)
  /\ LET reports == parse_dmarc_report(files[i])
     IN  /\ all_reports' = extend(all_reports, reports.records)
         /\ errors' = IF reports.error THEN Append(errors, i) ELSE errors
  /\ i' = i + 1
  /\ UNCHANGED <<files, pc, analysis, vis, calls>>

\* The loop is over: if not all_reports: return.
LoopEnd ==
  /\ pc = "parse"
  /\ i > Len(files)
  /\ pc' = IF all_reports = <<>> THEN "done" ELSE "analyze"
  /\ UNCHANGED <<files, i, all_reports, errors, analysis, vis, calls>>

\* analysis = analyze_data(all_reports).
Analyze ==
  /\ pc = "analyze"
  /\ analysis' = analyze_data(all_reports)
  /\ pc' = "summary"
  /\ UNCHANGED <<files, i, all_reports, errors, vis, calls>>

\* The loop that prints the summary; an exception it raises ends the run.
PrintSummary ==
  /\ pc = "summary"
  /\ pc' = IF summary_raises(analysis) THEN "crashed" ELSE "visualize"
  /\ UNCHANGED <<files, i, all_reports, errors, analysis, vis, calls>>

\* generate_visualizations(all_reports).
Visualize ==
  /\ pc = "visualize"
  /\ vis' = generate_visualizations(all_reports)
  /\ calls' = calls \cup {"generate_visualizations"}
  /\ pc' = "export"
  /\ UNCHANGED <<files, i, all_reports, errors, analysis>>

\* export_to_pdf(analysis): every exception of it is handled inside; what is
\* kept of it is that it was invoked.
Export ==
  /\ pc = "export"
  /\ calls' = calls \cup {"export_to_pdf"}
  /\ pc' = "done"
  /\ UNCHANGED <<files, i, all_reports, errors, analysis, vis>>

Unset == [kind |-> "unset"]

\* ------------------------------------------------------------- inputs

\* All sequences over S of length at most n.
SeqsUpTo(S, n) == UNION {[1..k -> S] : k \in 0..n}

Element(has, spf, dkim, disposition, count, header_from) ==
  [has |-> has, source_ip |-> "192.0.2.1", spf |-> spf, dkim |-> dkim,
   disposition |-> disposition, count |-> count, header_from |-> header_from]

Document(records) == [wellformed |-> TRUE, records |-> records]

Malformed == [wellformed |-> FALSE, records |-> <<>>]

\* The <record> elements of the batches: authenticated, with a disposition
\* other than "pass"; half authenticated, with the disposition "pass"; a
\* count of 0 and no header_from; a negative count; no <spf>; a count that
\* is no number.
RecA == Element(AllPaths, "pass", "pass", "none", <<"5">>, "a.com")

RecB == Element(AllPaths, "fail", "pass", "pass", <<"2">>, "b.com")

RecZ == Element(RequiredPaths, "fail", "fail", "quarantine", <<"0">>, "")

RecN == Element(AllPaths, "pass", "pass", "none", <<"-", "1">>, "a.com")

RecNoSpf == Element(AllPaths \ {"spf"}, "", "pass", "none", <<"3">>, "a.com")

RecAbc == Element(AllPaths, "pass", "pass", "none", <<"a", "b", "c">>, "a.com")

\* An empty <header_from/>: its text is None.
RecE == Element(AllPaths, "fail", "fail", "reject", <<"4">>, NoneText)

BatchDocuments ==
  {Malformed, Document(<<>>), Document(<<RecA>>), Document(<<RecZ>>),
   Document(<<RecB, RecZ>>), Document(<<RecN>>), Document(<<RecB, RecNoSpf>>),
   Document(<<RecAbc, RecA>>), Document(<<RecE>>)}

\* The state main starts from: the files select_reports returned.
Init ==
  /\ files \in SeqsUpTo(BatchDocuments, MaxFiles)
  /\ pc = "start"
  /\ i = 0
  /\ all_reports = <<>>
  /\ errors = <<>>
  /\ analysis = Unset
  /\ vis = Unset
  /\ calls = {}

Next == Start \/ ParseFile \/ LoopEnd \/ Analyze \/ PrintSummary \/ Visualize \/ Export

Spec == Init /\ [][Next]_vars

\* One document, parsed: the <record> elements are the valid ones and each of
\* them with one required child removed or with a <count> that is no integer.
ValidElements ==
  {Element(has, "pass", "fail", "none", count, header_from[1]) :
     has \in {AllPaths}, count \in {<<"7">>, <<"-", "1">>},
     header_from \in {<<"a.com">>, <<NoneText>>}}
  \cup
  {Element(RequiredPaths, "pass", "fail", "none", count, "") :
     count \in {<<"7">>, <<"-", "1">>}}

Without(record, path) ==
  [record EXCEPT !.has = @ \ {path},
                 ![path] = IF path = "count" THEN <<>> ELSE ""]

WithCount(record, text) == [record EXCEPT !.count = text]

ParseElements ==
  ValidElements
  \cup {Without(e, path) : e \in ValidElements, path \in RequiredPaths}
  \cup {WithCount(e, text) : e \in ValidElements,
                             text \in {<<>>, <<"a", "b", "c">>, <<"1", ".", "5">>}}

ParseDocuments ==
  {Malformed} \cup {Document(records) : records \in SeqsUpTo(ParseElements, MaxElems)}

InitParse ==
  /\ files \in {<<doc>> : doc \in ParseDocuments}
  /\ pc = "parse"
  /\ i = 1
  /\ all_reports = <<>>
  /\ errors = <<>>
  /\ analysis = Unset
  /\ vis = Unset
  /\ calls = {}

SpecParse == InitParse /\ [][ParseFile]_vars

\* A list of records handed to analyze_data and on to the charts.
Reports(records) ==
  /\ files = <<>>
  /\ pc = "analyze"
  /\ i = 0
  /\ all_reports \in SeqsUpTo(records, MaxRecords)
  /\ errors = <<>>
  /\ analysis = Unset
  /\ vis = Unset
  /\ calls = {}

NextAnalyze == Analyze \/ PrintSummary \/ Visualize \/ Export

AnalyzeRecords ==
  [Source_IP : {"192.0.2.1"}, SPF_Pass : {"pass", "fail"},
   DKIM_Pass : {"pass", "fail"}, Alignment : {"pass", "none"},
   Count : {-1, 0, 1}, Domain : {"a.com", "b.com"}]

InitAnalyze == Reports(AnalyzeRecords)

SpecAnalyze == InitAnalyze /\ [][NextAnalyze]_vars

\* Counts that put the fail rate on, below and above the two thresholds:
\* 1 of 20 is 5%, 3 of 20 is 15%, 1 of 21 is below 5%.
AdvisorRecords ==
  [Source_IP : {"192.0.2.1"}, SPF_Pass : {"pass", "fail"},
   DKIM_Pass : {"pass"}, Alignment : {"pass", "none"},
   Count : {1, 3, 17, 19, 20}, Domain : {"a.com", "b.com"}]

InitAdvisor == Reports(AdvisorRecords)

SpecAdvisor == InitAdvisor /\ [][NextAnalyze]_vars

\* ---------------------------------------------------------- properties

\* What the properties are stated with: a sum of Count over the records a
\* condition keeps, the permutations of a list, and what a document holds.
RECURSIVE SumAt(_, _)
SumAt(reports, indices) ==
  IF indices = {} THEN 0
  ELSE LET k == CHOOSE n \in indices : TRUE
       IN  reports[k].Count + SumAt(reports, indices \ {k})

CountWhere(reports, Keep(_)) ==
  SumAt(reports, {k \in 1..Len(reports) : Keep(reports[k])})

AnyRecord(r) == TRUE

BothPass(r) == r.SPF_Pass = "pass" /\ r.DKIM_Pass = "pass"

PartialPass(r) == (r.SPF_Pass = "pass") # (r.DKIM_Pass = "pass")

NotDelivered(r) == r.Alignment # "pass"

PermutationsOf(list) ==
  {[k \in 1..Len(list) |-> list[p[k]]] :
     p \in {q \in [1..Len(list) -> 1..Len(list)] :
              \A a, b \in 1..Len(list) : q[a] = q[b] => a = b}}

ValidElement(e) == RequiredPaths \subseteq e.has /\ IsIntText(e.count)

ExpectedRecord(e) ==
  [Source_IP |-> e.source_ip, SPF_Pass |-> e.spf, DKIM_Pass |-> e.dkim,
   Alignment |-> e.disposition, Count |-> IntOf(e.count),
   Domain |-> IF "header_from" \in e.has THEN e.header_from ELSE "Unknown"]

FileParses(doc) ==
  doc.wellformed /\ \A k \in 1..Len(doc.records) : ValidElement(doc.records[k])

RecordsOfFile(doc) ==
  IF FileParses(doc)
  THEN [k \in 1..Len(doc.records) |-> ExpectedRecord(doc.records[k])]
  ELSE <<>>

RECURSIVE MergedUpTo(_)
MergedUpTo(n) ==
  IF n = 0 THEN <<>> ELSE MergedUpTo(n - 1) \o RecordsOfFile(files[n])

RECURSIVE FailedUpTo(_)
FailedUpTo(n) ==
  IF n = 0 THEN <<>>
  ELSE IF FileParses(files[n]) THEN FailedUpTo(n - 1)
  ELSE Append(FailedUpTo(n - 1), n)

Populated == analysis.kind = "dict"

\* C1: in every populated summary the recommendation is 'reject' exactly when
\* fail_rate < 5 and unauthorized_count < 2, otherwise 'quarantine' exactly
\* when fail_rate < 15, otherwise 'none, investigate further'.
C1_ThresholdOrder ==
  Populated =>
    LET first == RateLess(analysis.Fail_Rate, 5)
                 /\ analysis.Unauthorized_Email_Count < 2
        second == RateLess(analysis.Fail_Rate, 15)
    IN  /\ (analysis.Recommendation = Reject) <=> first
        /\ (analysis.Recommendation = Quarantine) <=> (~first /\ second)
        /\ (analysis.Recommendation = StayAtNone) <=> (~first /\ ~second)

\* A fail rate of exactly 5 with no unauthorized mail falls to 'quarantine'.
C1_Witness ==
  /\ Populated
  /\ analysis.Fail_Rate.num = 5 * analysis.Fail_Rate.den
  /\ analysis.Unauthorized_Email_Count = 0
  /\ analysis.Recommendation = Quarantine

\* C2: analyze_data returns the "no data" string exactly when the counts of
\* the records sum to 0; any other result is a populated summary, whose rates
\* have a denominator other than 0.
C2_ZeroTotalGuard ==
  analysis.kind # "unset" =>
    /\ analysis.kind \in {"str", "dict"}
    /\ (analysis.kind = "str") <=> (CountWhere(all_reports, AnyRecord) = 0)
    /\ analysis.kind = "str" => analysis = NoData
    /\ Populated => /\ analysis.Fail_Rate.den # 0
                    /\ analysis.Total_Emails = CountWhere(all_reports, AnyRecord)

\* A list that is not empty and whose counts are all 0 gives "no data".
C2_Witness ==
  /\ analysis.kind = "str"
  /\ all_reports # <<>>
  /\ \A k \in 1..Len(all_reports) : all_reports[k].Count = 0

\* C3: after each file of the batch, failing or not, the loop goes on; a file
\* that fails adds no record and is reported, and the merged list is the
\* concatenation, in file order, of the records of the files that parsed.
C3_PerFileIsolation ==
  /\ pc = "parse" => /\ i \in 1..(Len(files) + 1)
                     /\ all_reports = MergedUpTo(i - 1)
                     /\ errors = FailedUpTo(i - 1)
  /\ pc \notin {"start", "parse"} /\ files # <<>> =>
                     /\ i = Len(files) + 1
                     /\ all_reports = MergedUpTo(Len(files))
                     /\ errors = FailedUpTo(Len(files))

\* Three files, the second malformed: analyze_data is handed the records of
\* the first and the third.
C3_Witness ==
  /\ pc = "analyze"
  /\ Len(files) = 3
  /\ ~files[2].wellformed
  /\ FileParses(files[1]) /\ files[1].records # <<>>
  /\ FileParses(files[3]) /\ files[3].records # <<>>
  /\ files[1] # files[3]
  /\ all_reports = RecordsOfFile(files[1]) \o RecordsOfFile(files[3])
  /\ errors = <<2>>

\* C4: a well-formed document with a <record> that lacks a required child or
\* whose count is no integer gives no record at all; any other well-formed
\* document gives one record for each <record>, in document order.
C4_AllOrNothing ==
  pc = "parse" /\ i = 2 /\ files[1].wellformed =>
    LET elems == files[1].records
    IN  IF \E k \in 1..Len(elems) : ~ValidElement(elems[k])
        THEN all_reports = <<>> /\ errors = <<1>>
        ELSE /\ Len(all_reports) = Len(elems)
             /\ \A k \in 1..Len(elems) : all_reports[k] = ExpectedRecord(elems[k])
             /\ errors = <<>>

\* A valid <record> before an invalid one: no record is returned.
C4_Witness ==
  /\ pc = "parse" /\ i = 2 /\ files[1].wellformed
  /\ Len(files[1].records) = 2
  /\ ValidElement(files[1].records[1])
  /\ ~ValidElement(files[1].records[2])
  /\ all_reports = <<>>

\* C5: a run that reaches "no data" (an empty merged list, or the "no data"
\* string from analyze_data) ends normally, and invokes neither
\* generate_visualizations nor export_to_pdf.
C5_NoDataIsTerminal ==
  /\ analysis.kind = "str" => pc # "crashed" /\ calls = {}
  /\ pc = "done" /\ all_reports = <<>> => calls = {} /\ analysis = Unset

\* C6: passed_count sums the records with both results "pass", failed_count
\* sums all the others, the two add up to total_emails, and unauthorized_count
\* sums every record whose disposition is not "pass", partial passes included.
C6_Conservation ==
  Populated =>
    /\ analysis.SPF_DKIM_Pass_Count = CountWhere(all_reports, BothPass)
    /\ analysis.failed_count =
         CountWhere(all_reports, LAMBDA r : ~BothPass(r))
    /\ analysis.SPF_DKIM_Pass_Count + analysis.failed_count = analysis.Total_Emails
    /\ analysis.Unauthorized_Email_Count =
         CountWhere(all_reports, LAMBDA r : NotDelivered(r) /\ PartialPass(r))
         + CountWhere(all_reports, LAMBDA r : NotDelivered(r) /\ ~PartialPass(r))

\* A partial pass that was not delivered as "pass": nothing passed, and its
\* count is unauthorized.
C6_Witness ==
  /\ Populated
  /\ Len(all_reports) = 1
  /\ PartialPass(all_reports[1]) /\ NotDelivered(all_reports[1])
  /\ all_reports[1].Count = 1
  /\ analysis.SPF_DKIM_Pass_Count = 0
  /\ analysis.Unauthorized_Email_Count = 1

\* C7: analyze_data gives the same result for every permutation of the list.
C7_OrderIndependent ==
  analysis.kind # "unset" =>
    \A list \in PermutationsOf(all_reports) :
      LET other == analyze_data(list)
      IN  /\ other.kind = analysis.kind
          /\ Populated =>
               /\ other.Total_Emails = analysis.Total_Emails
               /\ other.SPF_DKIM_Pass_Count = analysis.SPF_DKIM_Pass_Count
               /\ other.failed_count = analysis.failed_count
               /\ other.Unauthorized_Email_Count = analysis.Unauthorized_Email_Count
               /\ other.Fail_Rate = analysis.Fail_Rate
               /\ other.Domains_with_Failures = analysis.Domains_with_Failures
               /\ other.Recommendation = analysis.Recommendation

\* Two different records, both with failures and of different domains.
C7_Witness ==
  /\ Populated
  /\ Len(all_reports) >= 2
  /\ NotDelivered(all_reports[1]) /\ NotDelivered(all_reports[2])
  /\ all_reports[1].Domain # all_reports[2].Domain
  /\ all_reports[1].Count # all_reports[2].Count

\* C8: the counts of the charts agree with the summary: the pass total is
\* passed_count, the failures total is failed_count, the unauthorized total is
\* unauthorized_count, and each domain's bar is the sum of Count over that
\* domain's records whose disposition is not "pass".
C8_ChartsAgree ==
  vis.kind # "unset" /\ Populated =>
    /\ vis.values[1] = analysis.SPF_DKIM_Pass_Count
    /\ vis.values[2] = analysis.failed_count
    /\ vis.values[3] = analysis.Unauthorized_Email_Count
    /\ vis.kind = "charts" =>
         \A d \in DOMAIN vis.domain_counts :
           vis.domain_counts[d] =
             CountWhere(all_reports, LAMBDA r : r.Domain = d /\ NotDelivered(r))

\* C9: domains_with_failures is the set of the Domain values of the records
\* whose disposition is not "pass", whatever their count; a <record> without
\* header_from is there as "Unknown".
C9_DomainsWithFailures ==
  Populated =>
    /\ analysis.Domains_with_Failures =
         {all_reports[k].Domain :
            k \in {n \in 1..Len(all_reports) : all_reports[n].Alignment # "pass"}}
    /\ \A f \in 1..Len(files) :
         FileParses(files[f]) =>
           \A k \in 1..Len(files[f].records) :
             LET e == files[f].records[k]
             IN  e.disposition # "pass" =>
                   (IF "header_from" \in e.has THEN e.header_from ELSE "Unknown")
                     \in analysis.Domains_with_Failures

\* A record of count 0 without header_from puts "Unknown" in the set, and a
\* domain whose only record has the disposition "pass" is not in it.
C9_Witness ==
  /\ Populated
  /\ \E k \in 1..Len(all_reports) :
       /\ all_reports[k].Count = 0
       /\ all_reports[k].Alignment # "pass"
       /\ all_reports[k].Domain = "Unknown"
  /\ "Unknown" \in analysis.Domains_with_Failures
  /\ \E k \in 1..Len(all_reports) :
       /\ all_reports[k].Alignment = "pass"
       /\ all_reports[k].Domain \notin analysis.Domains_with_Failures

\* C10: every extracted record has Count >= 0, and every populated summary
\* has total_emails > 0, passed_count and unauthorized_count between 0 and
\* total_emails, and fail_rate between 0 and 100.
C10_Ranges ==
  /\ \A k \in 1..Len(all_reports) : all_reports[k].Count >= 0
  /\ Populated =>
       /\ analysis.Total_Emails > 0
       /\ 0 <= analysis.SPF_DKIM_Pass_Count
       /\ analysis.SPF_DKIM_Pass_Count <= analysis.Total_Emails
       /\ 0 <= analysis.Unauthorized_Email_Count
       /\ analysis.Unauthorized_Email_Count <= analysis.Total_Emails
       /\ ~RateLess(analysis.Fail_Rate, 0)
       /\ RateAtMost(analysis.Fail_Rate, 100)

====
